---- MODULE Spec2Model ----
(***************************************************************************)
(* Model of the authentication core of polaris:                            *)
(*   src/src/app/user.rs    user::Manager (accounts, passwords, tokens)    *)
(*   src/src/rocket_api.rs  the request guards Auth and AdminRights and    *)
(*                          the /auth handler                              *)
(*                                                                         *)
(* The store is assumed reachable: a failed connection (Unspecified on any *)
(* call) is not modelled.  Errors that follow from the contents of the     *)
(* table (duplicate insert, is_admin on a missing row) are.                *)
(***************************************************************************)
EXTENDS Integers, Sequences, FiniteSets, TLC

VARIABLES
    users,      \* the rows of the users table
    now,        \* SystemTime::now() in seconds since UNIX_EPOCH
    held,       \* the token string the caller holds: the last one the Manager returned
    cookies,    \* the usernames for which /auth has set the private session cookie
    created,    \* history: some Manager::create has succeeded
    passwords,  \* history: per name, the password last set for the account ("" if none)
    last,       \* the last event: operation, arguments, outcome
    guards      \* per request in flight: how far AdminRights::from_request has got

vars == <<users, now, held, cookies, created, passwords, last, guards>>

----------------------------------------------------------------------------
(* Input domains and bounds *)

Usernames == {"alice", "bob"}
NameInputs == Usernames \cup {""}
Passwords == {"pw1", "pw2"}
PasswordInputs == Passwords \cup {""}
Salts == {"s1"}
LastfmLogins == {"lfm1", "lfm2"}
SessionKeys == {"sk1"}
Requests == {"r1", "r2"}

StartTime == 0      \* the clock at construction
MaxTime == 601      \* the clock is followed up to here

----------------------------------------------------------------------------
(* Result<T, Error> *)

Unit == <<>>
Ok(v) == [ok |-> TRUE, err |-> "", val |-> v]
Err(e) == [ok |-> FALSE, err |-> e, val |-> Unit]

None == <<>>
Some(v) == <<v>>

Call(op, args, res) ==
    [op |-> op, args |-> args, ok |-> res.ok, err |-> res.err, val |-> res.val]

----------------------------------------------------------------------------
(* AuthorizationScope, Authorization *)

PolarisAuth == "PolarisAuth"
LastFMLink == "LastFMLink"
AuthorizationScope == {PolarisAuth, LastFMLink}

Authorization(username, scope) == [username |-> username, scope |-> scope]

----------------------------------------------------------------------------
(* Password hashing: PBKDF2 with a random salt, PHC string output *)

Pbkdf2Digest(password, salt) == <<"pbkdf2-sha256", salt, password>>

PhcString(salt, digest) == [alg |-> "pbkdf2-sha256", salt |-> salt, digest |-> digest]

hash_password(password, salt) ==
    IF password = ""
    THEN Err("EmptyPassword")
    ELSE Ok(PhcString(salt, Pbkdf2Digest(password, salt)))

\* Variants with a slip: the parse alone decides; the stored salt is not used.
verify_password_parse_only(password_hash, attempted_password) ==
    password_hash.alg = "pbkdf2-sha256"

verify_password_no_salt(password_hash, attempted_password) ==
    IF password_hash.alg = "pbkdf2-sha256"
    THEN Pbkdf2Digest(attempted_password, "") = password_hash.digest
    ELSE FALSE

verify_password(password_hash, attempted_password) ==
    IF password_hash.alg = "pbkdf2-sha256"
    THEN Pbkdf2Digest(attempted_password, password_hash.salt) = password_hash.digest
    ELSE FALSE

----------------------------------------------------------------------------
(* The users table *)

User(name, password_hash, admin) ==
    [name |-> name, password_hash |-> password_hash, admin |-> admin,
     lastfm_username |-> None, lastfm_session_key |-> None]

BoolAsI32(b) == IF b THEN 1 ELSE 0

Filter(rows, username) == {r \in rows : r.name = username}

\* The table's uniqueness constraint on name makes a second insert fail.
insert_into_users(rows, row) ==
    IF Filter(rows, row.name) # {}
    THEN Err("UniqueViolation")
    ELSE Ok(rows \cup {row})

count(rows) == Cardinality(rows)

\* Variant with a slip: the negation of is_empty is missing.
exists_inverted(rows, username) == Filter(rows, username) = {}

exists(rows, username) == Filter(rows, username) # {}

\* Variant with a slip: the filter on name is missing.
is_admin_unfiltered(rows, username) ==
    IF rows = {}
    THEN Err("Unspecified")
    ELSE Ok(\E r \in rows : r.admin # 0)

is_admin(rows, username) ==
    IF Filter(rows, username) = {}
    THEN Err("Unspecified")
    ELSE Ok((CHOOSE r \in Filter(rows, username) : TRUE).admin # 0)

----------------------------------------------------------------------------
(* The branca token codec (authenticated encryption, timestamp in the      *)
(* authenticated header).  A key is known by name; a tag can be computed   *)
(* only by the holder of the key, and covers header and ciphertext.        *)

AuthSecret == "auth_secret"
OtherKey == "other_key"

BrancaVersion == "0xBA"

\* `as_secs() as u32`: exact below 2^32, and every clock value of this model
\* (at most StartTime + a few TTLs) is below it.
U32(n) == n

Encrypt(key, message) == [key |-> key, plaintext |-> message]

Tag(key, version, timestamp, ciphertext) ==
    [key |-> key, version |-> version, timestamp |-> timestamp,
     ciphertext |-> ciphertext]

branca_encode(message, key, timestamp) ==
    [base62 |-> TRUE,
     version |-> BrancaVersion,
     timestamp |-> timestamp,
     ciphertext |-> Encrypt(key, message),
     tag |-> Tag(key, BrancaVersion, timestamp, Encrypt(key, message))]

\* ttl = 0 never expires; otherwise the token is expired once
\* timestamp + ttl < now.  (timestamp.checked_add(ttl) cannot overflow a u32
\* for the timestamps of this model.)
branca_decode(data, key, ttl, clock) ==
    IF ~data.base62 THEN Err("InvalidBase62Token")
    ELSE IF data.version # BrancaVersion THEN Err("InvalidTokenVersion")
    ELSE IF data.tag # Tag(key, data.version, data.timestamp, data.ciphertext)
         THEN Err("DecryptFailed")
    ELSE IF ttl # 0 /\ data.timestamp + ttl < clock THEN Err("ExpiredToken")
    ELSE Ok(data.ciphertext.plaintext)

----------------------------------------------------------------------------
(* serde_json of Authorization *)

to_string(authorization) ==
    <<"{", "username", authorization.username, "scope", authorization.scope, "}">>

from_slice(bytes) ==
    IF /\ Len(bytes) = 6
       /\ bytes[1] = "{" /\ bytes[2] = "username" /\ bytes[4] = "scope"
       /\ bytes[5] \in AuthorizationScope /\ bytes[6] = "}"
    THEN Ok(Authorization(bytes[3], bytes[5]))
    ELSE Err("SerdeError")

----------------------------------------------------------------------------
(* user::Manager: the token half *)

LinkTTL == 10 * 60

\* Variants with a slip: the arms exchanged; ten seconds for ten minutes.
Ttl_swapped(scope) == IF scope = PolarisAuth THEN LinkTTL ELSE 0

Ttl_seconds(scope) == IF scope = PolarisAuth THEN 0 ELSE 10

Ttl(scope) == IF scope = PolarisAuth THEN 0 ELSE LinkTTL

\* Variants with a slip: no comparison of scopes; the payload read without
\* authenticating the envelope.
decode_auth_token_any_scope(auth_token, scope, clock) ==
    LET decoded == branca_decode(auth_token, AuthSecret, Ttl(scope), clock) IN
    IF ~decoded.ok THEN Err("InvalidAuthToken")
    ELSE LET authorization == from_slice(decoded.val) IN
         IF ~authorization.ok THEN Err("InvalidAuthToken")
         ELSE Ok(authorization.val)

decode_auth_token_unverified(auth_token, scope, clock) ==
    LET authorization == from_slice(auth_token.ciphertext.plaintext) IN
    IF ~authorization.ok THEN Err("InvalidAuthToken")
    ELSE IF authorization.val.scope # scope THEN Err("IncorrectAuthorizationScope")
    ELSE Ok(authorization.val)

decode_auth_token(auth_token, scope, clock) ==
    LET decoded == branca_decode(auth_token, AuthSecret, Ttl(scope), clock) IN
    IF ~decoded.ok THEN Err("InvalidAuthToken")
    ELSE LET authorization == from_slice(decoded.val) IN
         IF ~authorization.ok THEN Err("InvalidAuthToken")
         ELSE IF authorization.val.scope # scope THEN Err("IncorrectAuthorizationScope")
         ELSE Ok(authorization.val)

generate_auth_token(authorization, clock) ==
    Ok(branca_encode(to_string(authorization), AuthSecret, U32(clock)))

\* Variants with a slip: the account is looked up before the scopes are
\* compared; the admin flag is asked for where existence is meant.
authenticate_lookup_first(rows, auth_token, scope, clock) ==
    LET authorization == decode_auth_token_any_scope(auth_token, scope, clock) IN
    IF ~authorization.ok THEN authorization
    ELSE IF ~exists(rows, authorization.val.username) THEN Err("IncorrectUsername")
    ELSE IF authorization.val.scope # scope THEN Err("IncorrectAuthorizationScope")
    ELSE Ok(authorization.val)

authenticate_checks_admin(rows, auth_token, scope, clock) ==
    LET authorization == decode_auth_token(auth_token, scope, clock) IN
    IF ~authorization.ok THEN authorization
    ELSE IF is_admin(rows, authorization.val.username) = Ok(TRUE)
         THEN Ok(authorization.val)
    ELSE Err("IncorrectUsername")

\* Variant with a slip: the account is not looked up.
authenticate_no_lookup(rows, auth_token, scope, clock) ==
    decode_auth_token(auth_token, scope, clock)

authenticate(rows, auth_token, scope, clock) ==
    LET authorization == decode_auth_token(auth_token, scope, clock) IN
    IF ~authorization.ok THEN authorization
    ELSE IF exists(rows, authorization.val.username) THEN Ok(authorization.val)
    ELSE Err("IncorrectUsername")

login(rows, username, password, clock) ==
    IF Filter(rows, username) = {}
    THEN Err("IncorrectUsername")
    ELSE LET hash == (CHOOSE r \in Filter(rows, username) : TRUE).password_hash IN
         IF verify_password(hash, password)
         THEN generate_auth_token(Authorization(username, PolarisAuth), clock)
         ELSE Err("IncorrectPassword")

\* Variant with a slip: the token is issued only for a name that is an account.
generate_lastfm_link_token_checked(username, clock) ==
    IF exists(users, username)
    THEN generate_auth_token(Authorization(username, LastFMLink), clock)
    ELSE Err("IncorrectUsername")

generate_lastfm_link_token(username, clock) ==
    generate_auth_token(Authorization(username, LastFMLink), clock)

----------------------------------------------------------------------------
(* user::Manager: the account half.  Each yields the outcome and the table *)
(* the call leaves behind.                                                 *)

\* Variants with a slip: the password is hashed before the name is looked at;
\* a row of the same name is replaced.
create_password_first(rows, new_user, salt) ==
    LET password_hash == hash_password(new_user.password, salt) IN
    IF ~password_hash.ok
    THEN [res |-> Err(password_hash.err), rows |-> rows]
    ELSE IF new_user.name = ""
    THEN [res |-> Err("EmptyUsername"), rows |-> rows]
    ELSE LET inserted == insert_into_users(rows,
                            User(new_user.name, password_hash.val,
                                 BoolAsI32(new_user.admin))) IN
         IF ~inserted.ok
         THEN [res |-> Err("Unspecified"), rows |-> rows]
         ELSE [res |-> Ok(Unit), rows |-> inserted.val]

create_upsert(rows, new_user, salt) ==
    IF new_user.name = ""
    THEN [res |-> Err("EmptyUsername"), rows |-> rows]
    ELSE LET password_hash == hash_password(new_user.password, salt) IN
         IF ~password_hash.ok
         THEN [res |-> Err(password_hash.err), rows |-> rows]
         ELSE [res |-> Ok(Unit),
               rows |-> (rows \ Filter(rows, new_user.name))
                        \cup {User(new_user.name, password_hash.val,
                                   BoolAsI32(new_user.admin))}]

create(rows, new_user, salt) ==
    IF new_user.name = ""
    THEN [res |-> Err("EmptyUsername"), rows |-> rows]
    ELSE LET password_hash == hash_password(new_user.password, salt) IN
         IF ~password_hash.ok
         THEN [res |-> Err(password_hash.err), rows |-> rows]
         ELSE LET inserted == insert_into_users(rows,
                                 User(new_user.name, password_hash.val,
                                      BoolAsI32(new_user.admin))) IN
              IF ~inserted.ok
              THEN [res |-> Err("Unspecified"), rows |-> rows]
              ELSE [res |-> Ok(Unit), rows |-> inserted.val]

delete(rows, username) ==
    [res |-> Ok(Unit), rows |-> rows \ Filter(rows, username)]

set_password(rows, username, password, salt) ==
    LET hash == hash_password(password, salt) IN
    IF ~hash.ok
    THEN [res |-> Err(hash.err), rows |-> rows]
    ELSE [res |-> Ok(Unit),
          rows |-> {IF r.name = username
                    THEN [r EXCEPT !.password_hash = hash.val]
                    ELSE r : r \in rows}]

\* Variant with a slip: the filter on name is missing.
set_is_admin_all(rows, username, admin) ==
    [res |-> Ok(Unit),
     rows |-> {[r EXCEPT !.admin = BoolAsI32(admin)] : r \in rows}]

set_is_admin(rows, username, admin) ==
    [res |-> Ok(Unit),
     rows |-> {IF r.name = username
               THEN [r EXCEPT !.admin = BoolAsI32(admin)]
               ELSE r : r \in rows}]

lastfm_link(rows, username, lastfm_login, session_key) ==
    [res |-> Ok(Unit),
     rows |-> {IF r.name = username
               THEN [r EXCEPT !.lastfm_username = Some(lastfm_login),
                              !.lastfm_session_key = Some(session_key)]
               ELSE r : r \in rows}]

get_lastfm_session_key(rows, username) ==
    IF Filter(rows, username) = {}
    THEN Err("NotFound")
    ELSE LET token == (CHOOSE r \in Filter(rows, username) : TRUE).lastfm_session_key IN
         IF token # None THEN Ok(token[1]) ELSE Err("Missing LastFM credentials")

is_lastfm_linked(rows, username) == get_lastfm_session_key(rows, username).ok

\* Variant with a slip: the username column is left as it was.
lastfm_unlink_key_only(rows, username) ==
    [res |-> Ok(Unit),
     rows |-> {IF r.name = username
               THEN [r EXCEPT !.lastfm_session_key = None]
               ELSE r : r \in rows}]

lastfm_unlink(rows, username) ==
    [res |-> Ok(Unit),
     rows |-> {IF r.name = username
               THEN [r EXCEPT !.lastfm_session_key = None, !.lastfm_username = None]
               ELSE r : r \in rows}]

----------------------------------------------------------------------------
(* rocket_api: the private session cookie and the request guards *)

SecretKey == "rocket_secret_key"

NoCookie == [present |-> FALSE, key |-> "", value |-> ""]

PrivateCookie(key, value) == [present |-> TRUE, key |-> key, value |-> value]

get_private(cookie) ==
    IF cookie.present /\ cookie.key = SecretKey THEN Some(cookie.value) ELSE None

Auth_from_request(cookie) ==
    LET u == get_private(cookie) IN
    IF u # None THEN Ok([username |-> u[1]]) ELSE Err("Forbidden")

\* Variants with a slip: no bootstrap arm; any session is an administrator's.
AdminRights_from_request_no_bootstrap(rows, cookie) ==
    LET auth == Auth_from_request(cookie) IN
    IF ~auth.ok THEN Err(auth.err)
    ELSE LET admin == is_admin(rows, auth.val.username) IN
         IF ~admin.ok THEN Err("InternalServerError")
         ELSE IF admin.val THEN Ok(Unit)
         ELSE Err("Forbidden")

AdminRights_from_request_any_session(rows, cookie) ==
    IF count(rows) = 0 THEN Ok(Unit)
    ELSE LET auth == Auth_from_request(cookie) IN
         IF ~auth.ok THEN Err(auth.err)
         ELSE Ok(Unit)

AdminRights_from_request(rows, cookie) ==
    IF count(rows) = 0 THEN Ok(Unit)
    ELSE LET auth == Auth_from_request(cookie) IN
         IF ~auth.ok THEN Err(auth.err)
         ELSE LET admin == is_admin(rows, auth.val.username) IN
              IF ~admin.ok THEN Err("InternalServerError")
              ELSE IF admin.val THEN Ok(Unit)
              ELSE Err("Forbidden")

\* AdminRights::from_request read by read: the count, then the session.
\* Variant with a slip: one account still counts as none.
AdminRights_bootstrap_at_most_one(rows) == count(rows) <= 1

AdminRights_bootstrap(rows) == count(rows) = 0

AdminRights_by_session(rows, cookie) ==
    LET auth == Auth_from_request(cookie) IN
    IF ~auth.ok THEN Err(auth.err)
    ELSE LET admin == is_admin(rows, auth.val.username) IN
         IF ~admin.ok THEN Err("InternalServerError")
         ELSE IF admin.val THEN Ok(Unit)
         ELSE Err("Forbidden")

\* user::auth, the password check behind POST /auth
user_auth(rows, username, password) ==
    IF Filter(rows, username) = {}
    THEN Err("IncorrectUsername")
    ELSE IF verify_password((CHOOSE r \in Filter(rows, username) : TRUE).password_hash,
                            password)
         THEN Ok(Unit)
         ELSE Err("IncorrectPassword")

\* POST /auth: the outcome and the cookie jar the response leaves behind
auth(rows, jar, credentials) ==
    LET checked == user_auth(rows, credentials.username, credentials.password) IN
    IF ~checked.ok THEN [res |-> checked, jar |-> jar]
    ELSE LET admin == is_admin(rows, credentials.username) IN
         [res |-> IF admin.ok THEN Ok([admin |-> admin.val]) ELSE Err(admin.err),
          jar |-> jar \cup {credentials.username}]

----------------------------------------------------------------------------
(* What a caller can present: the strings it was given, and strings made   *)
(* without the key.                                                        *)

Authorizations == {Authorization(u, s) : u \in Usernames, s \in AuthorizationScope}

Tampered(t, clock) ==
    {[t EXCEPT !.base62 = FALSE],
     [t EXCEPT !.version = "0xBB"],
     [t EXCEPT !.timestamp = U32(clock)],
     [t EXCEPT !.tag = Tag(OtherKey, t.version, t.timestamp, t.ciphertext)]}
    \cup {[t EXCEPT !.ciphertext = Encrypt(AuthSecret, to_string(a))] : a \in Authorizations}

Minted(clock) == {branca_encode(to_string(a), OtherKey, U32(clock)) : a \in Authorizations}

Forgeries(tokens, clock) ==
    (UNION {Tampered(t, clock) : t \in tokens} \cup Minted(clock)) \ tokens

PresentableCookies(jar) ==
    {NoCookie}
    \cup {PrivateCookie(SecretKey, u) : u \in jar}
    \cup {PrivateCookie(OtherKey, u) : u \in Usernames}

----------------------------------------------------------------------------
(* State machine *)

\* A request to an administrator-only route: where its guard stands (pc), the
\* cookie it carries, which arm granted it (by), and, as history, whether the
\* table was empty when its count was read.
Idle == [pc |-> "idle", cookie |-> NoCookie, by |-> "none", empty_at_count |-> FALSE]

Init ==
    /\ users = {}
    /\ now = StartTime
    /\ held = {}
    /\ cookies = {}
    /\ created = FALSE
    /\ passwords = [u \in Usernames |-> ""]
    /\ last = Call("new", Unit, Ok(Unit))
    /\ guards = [r \in Requests |-> Idle]

Create(name, password, admin) ==
    \E salt \in Salts :
        LET new_user == [name |-> name, password |-> password, admin |-> admin]
            out == create(users, new_user, salt) IN
        /\ users' = out.rows
        /\ created' = (created \/ out.res.ok)
        /\ passwords' = IF out.res.ok
                        THEN [passwords EXCEPT ![name] = password]
                        ELSE passwords
        /\ last' = Call("create", new_user, out.res)
        /\ UNCHANGED <<now, held, cookies, guards>>

Delete(username) ==
    LET out == delete(users, username) IN
    /\ users' = out.rows
    /\ passwords' = [passwords EXCEPT ![username] = ""]
    /\ last' = Call("delete", [username |-> username], out.res)
    /\ UNCHANGED <<now, held, cookies, created, guards>>

SetPassword(username, password) ==
    \E salt \in Salts :
        LET out == set_password(users, username, password, salt) IN
        /\ users' = out.rows
        /\ passwords' = IF out.res.ok /\ passwords[username] # ""
                        THEN [passwords EXCEPT ![username] = password]
                        ELSE passwords
        /\ last' = Call("set_password", [username |-> username, password |-> password],
                        out.res)
        /\ UNCHANGED <<now, held, cookies, created, guards>>

SetIsAdmin(username, admin) ==
    LET out == set_is_admin(users, username, admin) IN
    /\ users' = out.rows
    /\ last' = Call("set_is_admin", [username |-> username, is_admin |-> admin], out.res)
    /\ UNCHANGED <<now, held, cookies, created, passwords, guards>>

\* A returned token goes to the caller, who keeps the latest.
Hand(res) == held' = IF res.ok THEN {res.val} ELSE held

Login(username, password) ==
    LET res == login(users, username, password, now) IN
    /\ Hand(res)
    /\ last' = Call("login", [username |-> username, password |-> password], res)
    /\ UNCHANGED <<users, now, cookies, created, passwords, guards>>

GenerateLastfmLinkToken(username) ==
    LET res == generate_lastfm_link_token(username, now) IN
    /\ Hand(res)
    /\ last' = Call("generate_lastfm_link_token", [username |-> username], res)
    /\ UNCHANGED <<users, now, cookies, created, passwords, guards>>

Authenticate(auth_token, scope) ==
    /\ last' = Call("authenticate", [auth_token |-> auth_token, scope |-> scope],
                    authenticate(users, auth_token, scope, now))
    /\ UNCHANGED <<users, now, held, cookies, created, passwords, guards>>

Tick(d) ==
    /\ now + d <= MaxTime
    /\ now' = now + d
    /\ last' = Call("tick", [d |-> d], Ok(Unit))
    /\ UNCHANGED <<users, held, cookies, created, passwords, guards>>

PostAuth(username, password) ==
    LET credentials == [username |-> username, password |-> password]
        out == auth(users, cookies, credentials) IN
    /\ cookies' = out.jar
    /\ last' = Call("auth", credentials, out.res)
    /\ UNCHANGED <<users, now, held, created, passwords, guards>>

AdminRequest(cookie) ==
    /\ last' = Call("admin_request", [cookie |-> cookie],
                    AdminRights_from_request(users, cookie))
    /\ UNCHANGED <<users, now, held, cookies, created, passwords, guards>>

UserRequest(cookie) ==
    /\ last' = Call("user_request", [cookie |-> cookie], Auth_from_request(cookie))
    /\ UNCHANGED <<users, now, held, cookies, created, passwords, guards>>

LastfmLink(username, lastfm_login, session_key) ==
    LET out == lastfm_link(users, username, lastfm_login, session_key) IN
    /\ users' = out.rows
    /\ last' = Call("lastfm_link",
                    [username |-> username, lastfm_login |-> lastfm_login,
                     session_key |-> session_key], out.res)
    /\ UNCHANGED <<now, held, cookies, created, passwords, guards>>

LastfmUnlink(username) ==
    LET out == lastfm_unlink(users, username) IN
    /\ users' = out.rows
    /\ last' = Call("lastfm_unlink", [username |-> username], out.res)
    /\ UNCHANGED <<now, held, cookies, created, passwords, guards>>

IsLastfmLinked(username) ==
    /\ last' = Call("is_lastfm_linked", [username |-> username],
                    Ok(is_lastfm_linked(users, username)))
    /\ UNCHANGED <<users, now, held, cookies, created, passwords, guards>>

\* An administrator-only request arrives.
Arrive(r, cookie) ==
    /\ guards[r].pc \in {"idle", "done", "refused"}
    /\ guards' = [guards EXCEPT ![r] = [Idle EXCEPT !.pc = "count", !.cookie = cookie]]
    /\ UNCHANGED <<users, now, held, cookies, created, passwords, last>>

\* user::count is read: zero grants at once.
GuardCount(r) ==
    /\ guards[r].pc = "count"
    /\ guards' = [guards EXCEPT ![r] =
                      [@ EXCEPT !.pc = IF AdminRights_bootstrap(users)
                                       THEN "handler" ELSE "session",
                                !.by = IF AdminRights_bootstrap(users)
                                       THEN "bootstrap" ELSE "none",
                                !.empty_at_count = (users = {})]]
    /\ UNCHANGED <<users, now, held, cookies, created, passwords, last>>

\* The Auth guard and user::is_admin are read.
GuardSession(r) ==
    /\ guards[r].pc = "session"
    /\ guards' = [guards EXCEPT ![r] =
                      IF AdminRights_by_session(users, guards[r].cookie).ok
                      THEN [@ EXCEPT !.pc = "handler", !.by = "session"]
                      ELSE [@ EXCEPT !.pc = "refused"]]
    /\ UNCHANGED <<users, now, held, cookies, created, passwords, last>>

\* The granted request runs put_settings, which here adds an account.
PutSettings(r, name, admin) ==
    \E salt \in Salts :
        LET new_user == [name |-> name, password |-> "pw1", admin |-> admin]
            out == create(users, new_user, salt) IN
        /\ guards[r].pc = "handler"
        /\ users' = out.rows
        /\ created' = (created \/ out.res.ok)
        /\ passwords' = IF out.res.ok
                        THEN [passwords EXCEPT ![name] = "pw1"]
                        ELSE passwords
        /\ last' = Call("put_settings", new_user, out.res)
        /\ guards' = [guards EXCEPT ![r] = [@ EXCEPT !.pc = "done"]]
        /\ UNCHANGED <<now, held, cookies>>

Next ==
    \/ \E n \in NameInputs, p \in PasswordInputs, a \in BOOLEAN : Create(n, p, a)
    \/ \E n \in Usernames : Delete(n)
    \/ \E n \in Usernames, p \in PasswordInputs : SetPassword(n, p)
    \/ \E n \in Usernames, a \in BOOLEAN : SetIsAdmin(n, a)
    \/ \E n \in NameInputs, p \in PasswordInputs : Login(n, p)
    \/ \E n \in Usernames : GenerateLastfmLinkToken(n)
    \/ \E s \in AuthorizationScope :
           \E t \in held \cup Forgeries(held, now) : Authenticate(t, s)
    \/ \E d \in {LinkTTL, LinkTTL + 1} : Tick(d)

Spec == Init /\ [][Next]_vars

NextApi ==
    \/ \E n \in NameInputs, p \in PasswordInputs, a \in BOOLEAN : Create(n, p, a)
    \/ \E n \in Usernames : Delete(n)
    \/ \E n \in Usernames, p \in PasswordInputs : SetPassword(n, p)
    \/ \E n \in Usernames, a \in BOOLEAN : SetIsAdmin(n, a)
    \/ \E n \in NameInputs, p \in PasswordInputs : PostAuth(n, p)
    \/ \E c \in PresentableCookies(cookies) : AdminRequest(c)
    \/ \E c \in PresentableCookies(cookies) : UserRequest(c)

SpecApi == Init /\ [][NextApi]_vars

\* The account store with the last.fm fields: every mutation of a row.
NextAccounts ==
    \/ \E n \in NameInputs, p \in PasswordInputs, a \in BOOLEAN : Create(n, p, a)
    \/ \E n \in Usernames : Delete(n)
    \/ \E n \in Usernames, p \in PasswordInputs : SetPassword(n, p)
    \/ \E n \in Usernames, a \in BOOLEAN : SetIsAdmin(n, a)
    \/ \E n \in Usernames, l \in LastfmLogins, k \in SessionKeys : LastfmLink(n, l, k)
    \/ \E n \in Usernames : LastfmUnlink(n)
    \/ \E n \in Usernames : IsLastfmLinked(n)

SpecAccounts == Init /\ [][NextAccounts]_vars

\* Two administrator-only requests in flight, their guards interleaved.
NextRace ==
    \/ \E r \in Requests, c \in PresentableCookies(cookies) : Arrive(r, c)
    \/ \E r \in Requests : GuardCount(r)
    \/ \E r \in Requests : GuardSession(r)
    \/ \E r \in Requests, n \in Usernames, a \in BOOLEAN : PutSettings(r, n, a)
    \/ \E n \in Usernames : PostAuth(n, "pw1")
    \/ \E n \in Usernames : Delete(n)

SpecRace == Init /\ [][NextRace]_vars

----------------------------------------------------------------------------
(* Properties *)

\* What a token the Manager returned was issued for, and when.
IssuedFor(t) == from_slice(t.ciphertext.plaintext).val
IssuedAt(t) == t.timestamp

\* The last event is authenticate(t, scope) on a token the Manager returned.
AuthenticatedHeld(scope) ==
    /\ last.op = "authenticate"
    /\ last.args.scope = scope
    /\ last.args.auth_token \in held

\* C1: for every non-empty name and password, once create(name, password, admin)
\* has succeeded, login(name, password) succeeds, and authenticate accepts the
\* token it returns under PolarisAuth, as Authorization {name, PolarisAuth}.
C1_CreateLoginAuthenticate ==
    (last.op = "create" /\ last.ok) =>
        LET token == login(users, last.args.name, last.args.password, now) IN
        /\ token.ok
        /\ authenticate(users, token.val, PolarisAuth, now)
               = Ok(Authorization(last.args.name, PolarisAuth))

C1_Witness ==
    /\ last.op = "create" /\ last.ok
    /\ last.args.name = "bob" /\ last.args.password = "pw2"
    /\ exists(users, "alice")

\* C2: authenticate(token, X) succeeds only on a token issued with scope X: a
\* token from login is never accepted as LastFMLink, a token from
\* generate_lastfm_link_token never as PolarisAuth.
C2_ScopeIsolation ==
    (last.op = "authenticate" /\ last.ok) =>
        /\ IssuedFor(last.args.auth_token).scope = last.args.scope
        /\ last.val.scope = last.args.scope

C2_Witness ==
    /\ AuthenticatedHeld(LastFMLink)
    /\ IssuedFor(last.args.auth_token).scope = PolarisAuth
    /\ exists(users, IssuedFor(last.args.auth_token).username)
    /\ ~last.ok

\* C3: a PolarisAuth token of login, presented to authenticate while no account
\* of its name exists (the account was deleted), fails with IncorrectUsername.
C3_RevocationByDeletion ==
    (/\ AuthenticatedHeld(PolarisAuth)
     /\ IssuedFor(last.args.auth_token).scope = PolarisAuth
     /\ ~exists(users, IssuedFor(last.args.auth_token).username)) =>
        (~last.ok /\ last.err = "IncorrectUsername")

C3_Witness ==
    /\ AuthenticatedHeld(PolarisAuth)
    /\ IssuedFor(last.args.auth_token).scope = PolarisAuth
    /\ passwords[IssuedFor(last.args.auth_token).username] = ""
    /\ users # {}
    /\ last.err = "IncorrectUsername"

\* C4: for an existing account, a LastFMLink token issued at t is accepted under
\* LastFMLink while now - t <= 600 and fails with InvalidAuthToken once
\* now - t > 600; a PolarisAuth token is accepted under PolarisAuth at any time.
C4_ExpiryByScope ==
    \A scope \in AuthorizationScope :
        (/\ AuthenticatedHeld(scope)
         /\ IssuedFor(last.args.auth_token).scope = scope
         /\ exists(users, IssuedFor(last.args.auth_token).username)) =>
            IF scope = LastFMLink /\ now - IssuedAt(last.args.auth_token) > 600
            THEN ~last.ok /\ last.err = "InvalidAuthToken"
            ELSE last.ok

C4_Witness ==
    /\ AuthenticatedHeld(LastFMLink)
    /\ IssuedFor(last.args.auth_token).scope = LastFMLink
    /\ exists(users, IssuedFor(last.args.auth_token).username)
    /\ now - IssuedAt(last.args.auth_token) = 601
    /\ last.err = "InvalidAuthToken"

\* The cookie is one POST /auth has set, for a name that is now an account with
\* the admin flag set.
AdminCredential(cookie) ==
    /\ cookie \in {PrivateCookie(SecretKey, u) : u \in cookies}
    /\ \E r \in users : r.name = cookie.value /\ r.admin # 0

\* C5: an administrator-only request made while there is no account is granted,
\* with or without a cookie; one made without a session cookie while there is an
\* account is refused.
C5_BootstrapPolicy ==
    (last.op = "admin_request") =>
        /\ users = {} => last.ok
        /\ (users # {} /\ last.args.cookie \notin
                {PrivateCookie(SecretKey, u) : u \in cookies}) => ~last.ok

C5_Witness ==
    /\ last.op = "admin_request"
    /\ users = {}
    /\ last.args.cookie = NoCookie
    /\ last.ok

\* C6: while there is an account, an administrator-only request is granted only
\* on a session cookie of POST /auth whose name is, at the time of the request,
\* an account with the admin flag set; after set_is_admin(name, false) or
\* delete(name) the unchanged cookie is refused.
C6_AdminNeedsCurrentAdmin ==
    (last.op = "admin_request" /\ users # {} /\ last.ok) =>
        AdminCredential(last.args.cookie)

C6_Witness ==
    /\ last.op = "admin_request"
    /\ last.args.cookie \in {PrivateCookie(SecretKey, u) : u \in cookies}
    /\ \E r \in users : r.name = last.args.cookie.value /\ r.admin = 0
    /\ ~last.ok

\* C7: login fails with IncorrectUsername when there is no account of the name,
\* and with IncorrectPassword when there is one and the password is not the one
\* last set for it by create or set_password; no token is returned.
C7_LoginErrors ==
    (last.op = "login") =>
        /\ ~exists(users, last.args.username) =>
               (~last.ok /\ last.err = "IncorrectUsername")
        /\ (/\ exists(users, last.args.username)
            /\ last.args.password # passwords[last.args.username]) =>
               (~last.ok /\ last.err = "IncorrectPassword")

C7_Witness ==
    /\ last.op = "login"
    /\ exists(users, last.args.username)
    /\ last.args.password = "pw1"
    /\ passwords[last.args.username] = "pw2"
    /\ last.err = "IncorrectPassword"

\* C8 as stated: for an existing account, a token presented under the other
\* scope fails with IncorrectAuthorizationScope, whenever the call is made.
C8_CrossScopeAnyTime ==
    \A scope \in AuthorizationScope :
        (/\ AuthenticatedHeld(scope)
         /\ IssuedFor(last.args.auth_token).scope # scope
         /\ exists(users, IssuedFor(last.args.auth_token).username)) =>
            (~last.ok /\ last.err = "IncorrectAuthorizationScope")

\* C8, amended: a LastFMLink token under PolarisAuth fails with
\* IncorrectAuthorizationScope at any time; a PolarisAuth token under LastFMLink
\* fails with IncorrectAuthorizationScope while now - t <= 600 and with
\* InvalidAuthToken afterwards.
C8_CrossScopeWithinTtl ==
    \A scope \in AuthorizationScope :
        (/\ AuthenticatedHeld(scope)
         /\ IssuedFor(last.args.auth_token).scope # scope
         /\ exists(users, IssuedFor(last.args.auth_token).username)) =>
            /\ ~last.ok
            /\ last.err = IF scope = LastFMLink
                             /\ now - IssuedAt(last.args.auth_token) > 600
                          THEN "InvalidAuthToken"
                          ELSE "IncorrectAuthorizationScope"

C8_Witness ==
    /\ AuthenticatedHeld(LastFMLink)
    /\ IssuedFor(last.args.auth_token).scope = PolarisAuth
    /\ exists(users, IssuedFor(last.args.auth_token).username)
    /\ now - IssuedAt(last.args.auth_token) = 600
    /\ last.err = "IncorrectAuthorizationScope"

\* C9: authenticate succeeds only on a token string the Manager returned; any
\* other string, a returned token with a part altered included, fails with
\* InvalidAuthToken.
C9_Unforgeability ==
    (last.op = "authenticate" /\ last.args.auth_token \notin held) =>
        (~last.ok /\ last.err = "InvalidAuthToken")

C9_Witness ==
    /\ last.op = "authenticate"
    /\ \E t \in held :
           /\ last.args.auth_token = [t EXCEPT !.timestamp = now]
           /\ IssuedFor(t).scope = LastFMLink
           /\ exists(users, IssuedFor(t).username)
           /\ now - IssuedAt(t) > 600
    /\ last.args.scope = LastFMLink
    /\ last.err = "InvalidAuthToken"

\* C10 as stated: once a create has succeeded, an administrator-only request is
\* granted only on valid administrator credentials, whatever happened since.
C10_WindowClosedForever ==
    (created /\ last.op = "admin_request" /\ last.ok) =>
        AdminCredential(last.args.cookie)

\* C10, amended: once a create has succeeded, an administrator-only request is
\* granted exactly when it carries valid administrator credentials or there is
\* no account left: deleting every account opens the window again.
C10_WindowClosedWhileAccounts ==
    (created /\ last.op = "admin_request") =>
        (last.ok <=> (users = {} \/ AdminCredential(last.args.cookie)))

C10_Witness ==
    /\ created
    /\ last.op = "admin_request"
    /\ users # {}
    /\ last.args.cookie \in {PrivateCookie(SecretKey, u) : u \in cookies}
    /\ ~exists(users, last.args.cookie.value)
    /\ ~last.ok

\* C11 as stated: an ordinary protected endpoint is served only on a session
\* credential of POST /auth whose account exists at the time of the request; a
\* cookie obtained before the account was deleted gives no access.
C11_UserRequestNeedsAccount ==
    (last.op = "user_request" /\ last.ok) =>
        /\ last.args.cookie \in {PrivateCookie(SecretKey, u) : u \in cookies}
        /\ exists(users, last.args.cookie.value)

\* C12: create with an empty name fails with EmptyUsername, whatever the
\* password; create with a name and an empty password, and set_password with an
\* empty password, fail with EmptyPassword; the table is left as it was.
C12_EmptyInputs ==
    [][/\ (last'.op = "create" /\ last'.args.name = "") =>
              (~last'.ok /\ last'.err = "EmptyUsername" /\ users' = users)
       /\ (last'.op = "create" /\ last'.args.name # "" /\ last'.args.password = "") =>
              (~last'.ok /\ last'.err = "EmptyPassword" /\ users' = users)
       /\ (last'.op = "set_password" /\ last'.args.password = "") =>
              (~last'.ok /\ last'.err = "EmptyPassword" /\ users' = users)]_vars

C12_Witness ==
    /\ last.op = "create"
    /\ last.args.name = "" /\ last.args.password = ""
    /\ last.err = "EmptyUsername"
    /\ users # {}

UniqueNames == \A r1, r2 \in users : r1.name = r2.name => r1 = r2

C14_LinkFieldsTogether ==
    /\ \A r \in users : (r.lastfm_username = None) <=> (r.lastfm_session_key = None)
    /\ last.op = "lastfm_link" =>
           \A r \in Filter(users, last.args.username) :
               /\ r.lastfm_username = Some(last.args.lastfm_login)
               /\ r.lastfm_session_key = Some(last.args.session_key)
    /\ last.op = "lastfm_unlink" =>
           \A r \in Filter(users, last.args.username) :
               r.lastfm_username = None /\ r.lastfm_session_key = None

C14_Witness ==
    /\ last.op = "lastfm_unlink"
    /\ exists(users, last.args.username)
    /\ ~is_lastfm_linked(users, last.args.username)
    /\ \E r \in users : r.name # last.args.username /\ r.lastfm_username = Some("lfm2")

\* C20: delete, set_password (with a password), set_is_admin, lastfm_link and
\* lastfm_unlink succeed, add no account and change no row of another name; on a
\* name that is no account they leave the table as it was.
C20_OnlyTheNamedAccount ==
    [][(/\ last'.op \in {"delete", "set_password", "set_is_admin",
                         "lastfm_link", "lastfm_unlink"}
        /\ last'.op = "set_password" => last'.args.password # "") =>
           /\ last'.ok
           /\ {r \in users' : r.name # last'.args.username}
                  = {r \in users : r.name # last'.args.username}
           /\ {r.name : r \in users'} \subseteq {r.name : r \in users}
           /\ ~exists(users, last'.args.username) => users' = users]_vars

C20_Witness ==
    /\ last.op = "set_password"
    /\ last.args.password # ""
    /\ ~exists(users, last.args.username)
    /\ last.ok
    /\ users # {}

\* C16: authenticate reports the first reason that applies, in the order
\* InvalidAuthToken (not a token of the Manager, or older than the TTL of the
\* scope asked for), IncorrectAuthorizationScope, IncorrectUsername; a token of
\* the other scope, not expired, for a deleted account gives
\* IncorrectAuthorizationScope.
C16_ErrorPrecedence ==
    (last.op = "authenticate") =>
        LET t == last.args.auth_token IN
        IF \/ t \notin held
           \/ (last.args.scope = LastFMLink /\ now - IssuedAt(t) > 600)
        THEN ~last.ok /\ last.err = "InvalidAuthToken"
        ELSE IF IssuedFor(t).scope # last.args.scope
        THEN ~last.ok /\ last.err = "IncorrectAuthorizationScope"
        ELSE IF ~exists(users, IssuedFor(t).username)
        THEN ~last.ok /\ last.err = "IncorrectUsername"
        ELSE last.ok /\ last.val = IssuedFor(t)

C16_Witness ==
    /\ AuthenticatedHeld(PolarisAuth)
    /\ IssuedFor(last.args.auth_token).scope = LastFMLink
    /\ passwords[IssuedFor(last.args.auth_token).username] = ""
    /\ created
    /\ last.err = "IncorrectAuthorizationScope"

\* C17: generate_lastfm_link_token(name) succeeds for any name, account or not,
\* and leaves the table as it was; authenticate accepts its token under
\* LastFMLink, as name, exactly while name is an account and now - t <= 600.
C17_LinkToken ==
    /\ [](/\ last.op = "generate_lastfm_link_token" =>
                 /\ last.ok
                 /\ IssuedFor(last.val) = Authorization(last.args.username, LastFMLink)
                 /\ IssuedAt(last.val) = now
          /\ (/\ AuthenticatedHeld(LastFMLink)
              /\ IssuedFor(last.args.auth_token).scope = LastFMLink) =>
                 /\ last.ok <=>
                        /\ exists(users, IssuedFor(last.args.auth_token).username)
                        /\ now - IssuedAt(last.args.auth_token) <= 600
                 /\ last.ok => last.val.username
                                   = IssuedFor(last.args.auth_token).username)
    /\ [][last'.op = "generate_lastfm_link_token" => users' = users]_vars

C17_Witness ==
    /\ last.op = "generate_lastfm_link_token"
    /\ ~exists(users, last.args.username)
    /\ users # {}
    /\ last.ok

\* C18: only delete (and, for a LastFMLink token, the passing of time) turns a
\* token authenticate accepts into one it rejects; set_password and
\* set_is_admin never do.
C18_OnlyDeleteRevokes ==
    [][\A t \in held, scope \in AuthorizationScope :
           (/\ authenticate(users, t, scope, now).ok
            /\ ~authenticate(users', t, scope, now').ok) =>
               \/ last'.op = "delete"
               \/ last'.op = "tick" /\ scope = LastFMLink]_vars

C18_Witness ==
    /\ last.op = "set_password"
    /\ last.ok
    /\ \E t \in held :
           /\ IssuedFor(t) = Authorization(last.args.username, PolarisAuth)
           /\ IssuedAt(t) < now
           /\ authenticate(users, t, PolarisAuth, now).ok

\* C19: after delete(name) and a new create(name, ..), a PolarisAuth token that
\* login gave for the earlier account of that name is accepted again.
C19_RecreatedAccountRevivesToken ==
    (last.op = "create" /\ last.ok) =>
        \A t \in held :
            IssuedFor(t) = Authorization(last.args.name, PolarisAuth) =>
                authenticate(users, t, PolarisAuth, now) = Ok(IssuedFor(t))

C19_Witness ==
    /\ last.op = "create" /\ last.ok
    /\ \E t \in held :
           /\ IssuedFor(t) = Authorization(last.args.name, PolarisAuth)
           /\ IssuedAt(t) < now

\* C15: a request is granted by the count alone only if there was no account
\* when its count was read; two requests whose counts were both read before the
\* first account was written are both granted.
C15_BootstrapRace ==
    \A r \in Requests :
        guards[r].by = "bootstrap" => guards[r].empty_at_count

C15_Witness ==
    /\ \A r \in Requests :
           /\ guards[r].by = "bootstrap"
           /\ guards[r].pc = "done"
           /\ guards[r].cookie = NoCookie
    /\ Cardinality(users) = Cardinality(Requests)

====
